---- MODULE Spec2Model ----
(***************************************************************************)
(* A model of internal/client/api.go and of the command functions that     *)
(* consume its streams.                                                    *)
(* Spec: one APIClient opens one StreamReader (its connection, run         *)
(* context, msgChan and errChan), with the background readLoop goroutine,  *)
(* Close() called from another goroutine, and a consumer draining          *)
(* Messages() and Errors().                                                *)
(* ClientSpec: the APIClient over every configured base URL: SetAPIKey and *)
(* the WebSocket dial.  RestSpec: SetAPIKey and GET, POST, PUT, DELETE.    *)
(* ConsumerSpec: a command function running its select loop on the stream. *)
(* TwoStreamSpec: two StreamReaders of one client.                         *)
(* LoginSpec: loginUser, its two validation requests and the stored key.   *)
(* DeleteSpec: deleteWorkspace, its confirmation, DELETE and local files.  *)
(***************************************************************************)
EXTENDS Integers, Sequences, FiniteSets, TLC

\* ---- bounds of the model ------------------------------------------------
\* frames the server sends on the stream before it stops sending
MaxFrames == 102
\* calls of Close() made on the stream
MaxCloseCalls == 2
\* envelopes the consumer takes from Messages() before it stops draining
MaxRecv == 3
\* frames the server sends to a stream that a command function consumes
MaxLoopFrames == 3

\* ---- program constants --------------------------------------------------
\* make(chan StreamMessage, 100)
MsgChanCap == 100
\* make(chan error, 1)
ErrChanCap == 1
\* websocket.CloseNormalClosure, websocket.CloseGoingAway
CloseNormalClosure == 1000
CloseGoingAway == 1001
\* the retry count of resty.New(), which NewAPIClient leaves as it is
RetryCount == 0

\* close codes a peer can send that readLoop does not list as expected
OtherCloseCodes == {1006}

\* ---- errors returned by conn.ReadJSON / conn.Close ----------------------
NoErr == [kind |-> "nil", code |-> 0]
CloseError(c) == [kind |-> "close", code |-> c]
IOErr == [kind |-> "io", code |-> 0]
JSONErr == [kind |-> "json", code |-> 0]
NetClosedErr == [kind |-> "netclosed", code |-> 0]

\* websocket.IsCloseError(err, codes...)
IsCloseError(e, codes) == e.kind = "close" /\ e.code \in codes

\* the test of readLoop on a ReadJSON error: an expected close of the peer
IsExpectedCloseGoingAwayMissing(e) == IsCloseError(e, {CloseNormalClosure})
IsExpectedClose(e) == IsCloseError(e, {CloseNormalClosure, CloseGoingAway})

\* ---- frames and envelopes -----------------------------------------------
TypeTags == <<"progress", "complete">>

\* the "metadata" member of the i-th frame, as the values of its keys, each
\* absent (<<>>) or present
NoMetadata == [progress |-> <<>>, status |-> <<>>]
Metadata(i) ==
    IF i % 3 = 1
    THEN [progress |-> <<42>>, status |-> <<>>]
    ELSE [progress |-> <<>>, status |-> <<"completed">>]

\* The i-th JSON text frame the server writes: an object with a "content"
\* member and, for two frames out of three, a "type" and a "metadata" member.
Frame(i) ==
    IF i % 3 = 0
    THEN [content |-> i]
    ELSE [type |-> TypeTags[i % 3], content |-> i, metadata |-> Metadata(i)]

\* the zero value of StreamMessage (var msg StreamMessage)
ZeroMsg == [type |-> "", content |-> 0, metadata |-> NoMetadata]

\* json decoding of a frame into a zero StreamMessage: members present in
\* the frame overwrite the field, absent members leave the zero value.
StreamMessage(f) ==
    [type |-> IF "type" \in DOMAIN f THEN f.type ELSE ZeroMsg.type,
     content |-> IF "content" \in DOMAIN f THEN f.content ELSE ZeroMsg.content,
     metadata |-> IF "metadata" \in DOMAIN f
                  THEN f.metadata
                  ELSE ZeroMsg.metadata]

VARIABLES
    pc,           \* position of the readLoop goroutine
    msg,          \* readLoop: local msg
    err,          \* readLoop: local err of the last ReadJSON
    msgChan,      \* sr.msgChan: buffered envelopes
    msgClosed,    \* sr.msgChan has been closed
    errChan,      \* sr.errChan: buffered errors
    errClosed,    \* sr.errChan has been closed
    ctxDone,      \* sr.ctx is cancelled
    connClosed,   \* sr.conn has been closed locally
    closePc,      \* position of the goroutine calling Close()
    closeRets,    \* the values returned by the calls of Close(), in order
    nRead,        \* frames the server sent and ReadJSON returned
    received,     \* envelopes the consumer took from Messages()
    errsReceived, \* errors the consumer took from Errors()
    baseURL,      \* c.baseURL, as the tokens of its text
    apiKey,       \* c.apiKey
    restAuth,     \* the Authorization header set on c.client
    nSetKey,      \* calls of SetAPIKey made so far
    call,         \* the last REST call: request sent, response, return
    dial,         \* the last WebSocket dial: request sent, response, return
    nDials,       \* WebSocket dials made so far
    nLoops,       \* readLoop goroutines started so far
    consumer,     \* the command function consuming the stream, if any
    cpc,          \* position of the consumer's loop
    cret,         \* how the consumer's loop ended
    sigDone,      \* an interrupt signal has been delivered to the process
    other,        \* a second StreamReader of the same client
    stored,       \* the API key the configuration holds
    login,        \* loginUser: position, key, requests made, return
    del,          \* deleteWorkspace: position, flags, answer, return
    localFiles    \* the local directory of the workspace

vars == <<pc, msg, err, msgChan, msgClosed, errChan, errClosed, ctxDone,
          connClosed, closePc, closeRets, nRead, received, errsReceived,
          baseURL, apiKey, restAuth, nSetKey, call, dial, nDials, nLoops,
          consumer, cpc, cret, sigDone, other, stored, login, del,
          localFiles>>

chanVars == <<msgChan, msgClosed, errChan, errClosed>>
closeVars == <<ctxDone, connClosed, closePc, closeRets>>
consumerVars == <<received, errsReceived>>
clientVars == <<baseURL, apiKey, restAuth, nSetKey, call>>
dialVars == <<dial, nDials, nLoops>>
streamVars == <<pc, msg, err, chanVars, closeVars, nRead, consumerVars>>
loopVars == <<consumer, cpc, cret, sigDone>>
cmdVars == <<stored, login, del, localFiles>>
sideVars == <<loopVars, other, cmdVars>>

\* ---- the client: configuration, credential, WebSocket dial -------------
\* calls of SetAPIKey made on the client
MaxSetKey == 2

\* a URL is the sequence of the pieces of its text: scheme, "://", host and
\* what follows the host
DefaultBaseURL == <<"https", "://", "api.fleeks.dev">>

\* values of api.base_url in the configuration; <<>> is the empty string
ConfiguredBaseURLs ==
    {<<>>,
     <<"http", "://", "localhost:8080">>,
     <<"https", "://", "api.fleeks.dev", "/v1">>,
     <<"ftp", "://", "files.fleeks.dev">>,
     <<"//", "staging.fleeks.dev", "/api">>,
     <<"localhost", ":", "8080">>,
     <<"api.fleeks.dev">>,
     <<"127.0.0.1", ":", "8080">>}

\* NewAPIClient: baseURL := viper.GetString("api.base_url"), defaulted
NewAPIClientBaseURL(configured) ==
    IF configured = <<>> THEN DefaultBaseURL ELSE configured

\* credentials passed to SetAPIKey
Keys == {"", "fleeks_k1", "sk_k2"}

\* stream paths passed to NewStreamReader
Paths == {"/ws/agents/a1/stream", "/ws/containers/c1/logs"}

\* no Authorization header
Absent == <<>>
\* fmt.Sprintf("Bearer %s", apiKey) as the value of the Authorization header
Bearer(k) == <<"Bearer", k>>

\* the Authorization header among the headers NewAPIClient sets on the
\* resty client (Content-Type and User-Agent only)
NewAPIClientAuth == Absent

\* SetAPIKey: c.client.SetHeader("Authorization", "Bearer "+apiKey)
SetAPIKeyHeader(k) == Bearer(k)

\* ConnectWebSocket: the Authorization header of the handshake request
WSAuthHeader(k) == IF k # "" THEN Bearer(k) ELSE Absent

\* texts that url.Parse takes for a scheme when a colon follows: a letter,
\* then letters, digits, "+", "-" and "."
SchemeNames == {"http", "https", "ftp", "localhost"}

\* the nil *url.URL that url.Parse returns next to an error
NilURL == [ok |-> FALSE, Scheme |-> "", Host |-> <<>>, Path |-> <<>>]

\* url.Parse of the base URL: its scheme, host and path (an opaque rest
\* "8080" of "localhost:8080" is not kept, no caller reads it).  A text
\* with no scheme whose first path segment holds a colon is an error.
ParseURL(u) ==
    IF Len(u) >= 2 /\ u[2] \in {"://", ":"}
    THEN IF u[1] \notin SchemeNames
         THEN NilURL
         ELSE IF u[2] = "://" /\ Len(u) >= 3
         THEN [ok |-> TRUE, Scheme |-> u[1], Host |-> <<u[3]>>,
               Path |-> SubSeq(u, 4, Len(u))]
         ELSE [ok |-> TRUE, Scheme |-> u[1], Host |-> <<>>, Path |-> <<>>]
    ELSE IF Len(u) >= 2 /\ u[1] = "//"
    THEN [ok |-> TRUE, Scheme |-> "", Host |-> <<u[2]>>,
          Path |-> SubSeq(u, 3, Len(u))]
    ELSE [ok |-> TRUE, Scheme |-> "", Host |-> <<>>, Path |-> u]

\* u.Scheme read through a nil u: a nil pointer dereference, which ends the
\* process
Panic == <<"panic">>

\* WebSocketURL: fmt.Sprintf("%s://%s%s", scheme, u.Host, path), with the
\* path of the base URL in front of the path given
WebSocketURLKeepsBasePath(base, path) ==
    LET u == ParseURL(base)
        scheme == IF u.Scheme = "https" THEN "wss" ELSE "ws"
    IN  IF ~u.ok THEN Panic
        ELSE <<scheme, "://">> \o u.Host \o u.Path \o <<path>>

\* WebSocketURL: fmt.Sprintf("%s://%s%s", scheme, u.Host, path)
WebSocketURL(base, path) ==
    LET u == ParseURL(base)
        scheme == IF u.Scheme = "https" THEN "wss" ELSE "ws"
    IN  IF ~u.ok THEN Panic
        ELSE <<scheme, "://">> \o u.Host \o <<path>>

\* what wsDialer.Dial returns: the HTTP response of the server, if one came,
\* and an error unless the server switched protocols
NoResponse == [answered |-> FALSE, status |-> <<>>]
Answer(s) == [answered |-> TRUE, status |-> <<s>>]
DialOutcomes ==
    {[resp |-> Answer(101), err |-> "nil"],
     [resp |-> Answer(401), err |-> "bad handshake"],
     [resp |-> Answer(403), err |-> "bad handshake"],
     [resp |-> Answer(101), err |-> "bad handshake"],
     [resp |-> NoResponse, err |-> "i/o timeout"],
     [resp |-> NoResponse, err |-> "connection refused"]}

\* the error ConnectWebSocket (and so NewStreamReader) returns
NoDialErr == [kind |-> "nil", status |-> <<>>, cause |-> "nil"]
ConnectWebSocketErrorNoStatus(resp, e) ==
    IF e = "nil"
    THEN NoDialErr
    ELSE [kind |-> "websocket dial failed", status |-> <<>>, cause |-> e]
ConnectWebSocketError(resp, e) ==
    IF e = "nil"
    THEN NoDialErr
    ELSE IF resp.answered
         THEN [kind |-> "websocket dial failed with status",
               status |-> resp.status, cause |-> e]
         ELSE [kind |-> "websocket dial failed", status |-> <<>>, cause |-> e]

\* readLoop goroutines NewStreamReader starts, given the error of the dial
LoopsStartedUnchecked(ret) == 1
LoopsStartedTwice(ret) == IF ret = NoDialErr THEN 2 ELSE 0
LoopsStarted(ret) == IF ret = NoDialErr THEN 1 ELSE 0

\* no dial made yet, no REST call made yet
NoDial ==
    [path |-> "", url |-> <<>>, auth |-> Absent, resp |-> NoResponse,
     ret |-> NoDialErr]

\* NewStreamReader did not return: WebSocketURL panicked before the dial
PanicErr == [kind |-> "panic", status |-> <<>>, cause |-> "nil dereference"]
Panicked == dial.ret = PanicErr

\* ---- REST: GET, POST, PUT, DELETE ---------------------------------------
Methods == {"GET", "POST", "PUT", "DELETE"}

\* a JSON object as the values of its fields, each absent (<<>>) or present
EmptyObject ==
    [error |-> <<>>, message |-> <<>>, code |-> <<>>, id |-> <<>>,
     name |-> <<>>]

\* response bodies: well-formed JSON objects and one that is not JSON
NotFoundBody ==
    [wellformed |-> TRUE,
     obj |-> [EmptyObject EXCEPT !.error = <<"not found">>]]
DeniedBody ==
    [wellformed |-> TRUE,
     obj |-> [EmptyObject EXCEPT !.error = <<"denied">>,
                                 !.message = <<"token expired">>,
                                 !.code = <<1042>>]]
ProjectBody ==
    [wellformed |-> TRUE,
     obj |-> [EmptyObject EXCEPT !.id = <<"p1">>, !.name = <<"demo">>]]
GarbageBody == [wellformed |-> FALSE, obj |-> EmptyObject]
Bodies == {NotFoundBody, DeniedBody, ProjectBody, GarbageBody}

Statuses == {200, 204, 300, 404, 502}
ContentTypes == {"application/json", "text/plain"}

\* what the round trip gives: no response at all, or a response
TransportFailure ==
    [failed |-> TRUE, status |-> 0, ctype |-> "", body |-> GarbageBody]
Responses ==
    {TransportFailure} \cup
    [failed : {FALSE}, status : Statuses, ctype : ContentTypes, body : Bodies]

\* resty Response.IsSuccess and Response.IsError
IsSuccessUpTo399(status) == status > 199 /\ status < 400
IsSuccess(status) == status > 199 /\ status < 300
IsError(status) == status > 399
IsJSONType(ct) == ct = "application/json"

\* the caller's result struct, and json.Unmarshal of an object into it
ZeroResult == [id |-> "", name |-> ""]
UnmarshalResult(obj) ==
    [id |-> IF obj.id = <<>> THEN "" ELSE obj.id[1],
     name |-> IF obj.name = <<>> THEN "" ELSE obj.name[1]]

\* &ErrorResponse{}, and json.Unmarshal of an object into it:
\* Message `json:"error"`, Detail `json:"message"`, Code `json:"code"`
ZeroErrorResponse == [Message |-> "", Detail |-> "", Code |-> 0]
UnmarshalErrorResponse(obj) ==
    [Message |-> IF obj.error = <<>> THEN "" ELSE obj.error[1],
     Detail |-> IF obj.message = <<>> THEN "" ELSE obj.message[1],
     Code |-> IF obj.code = <<>> THEN 0 ELSE obj.code[1]]

\* resty's handling of the response body, for a request made with
\* SetResult(result).SetError(&ErrorResponse{}): the error it returns, the
\* value Response.Error() gives (<<>> is nil) and the caller's result.
\* Releases of resty differ on an error body that does not decode: the
\* strict ones return the decoding error, the others log it.
ParseResponseBody(r, strict) ==
    IF r.status = 204
    THEN [err |-> "nil", reqError |-> <<>>, result |-> ZeroResult]
    ELSE IF ~IsJSONType(r.ctype)
    THEN [err |-> "nil", reqError |-> <<ZeroErrorResponse>>,
          result |-> ZeroResult]
    ELSE IF IsSuccess(r.status)
    THEN IF r.body.wellformed
         THEN [err |-> "nil", reqError |-> <<>>,
               result |-> UnmarshalResult(r.body.obj)]
         ELSE [err |-> "unmarshal", reqError |-> <<>>, result |-> ZeroResult]
    ELSE IF IsError(r.status)
    THEN IF r.body.wellformed
         THEN [err |-> "nil",
               reqError |-> <<UnmarshalErrorResponse(r.body.obj)>>,
               result |-> ZeroResult]
         ELSE [err |-> IF strict THEN "unmarshal" ELSE "nil",
               reqError |-> <<ZeroErrorResponse>>, result |-> ZeroResult]
    ELSE [err |-> "nil", reqError |-> <<ZeroErrorResponse>>,
          result |-> ZeroResult]

\* c.client.R().SetResult(result).SetError(&ErrorResponse{}).Get(endpoint)
Execute(r, strict) ==
    IF r.failed
    THEN [err |-> "transport", reqError |-> <<ZeroErrorResponse>>,
          result |-> ZeroResult]
    ELSE ParseResponseBody(r, strict)

\* the errors GET, POST, PUT and DELETE return
NilError ==
    [kind |-> "nil", cause |-> "nil", code |-> <<>>, message |-> "",
     detail |-> ""]
RequestFailed(cause) ==
    [kind |-> "request failed", cause |-> cause, code |-> <<>>,
     message |-> "", detail |-> ""]
StatusError(status) ==
    [kind |-> "request failed with status", cause |-> "nil",
     code |-> <<status>>, message |-> "", detail |-> ""]
APIError(errResp, status) ==
    [kind |-> "ErrorResponse", cause |-> "nil", code |-> <<status>>,
     message |-> errResp.Message, detail |-> errResp.Detail]

\* network requests one call of Execute makes: the first attempt and, after
\* a failed attempt, as many more as the retry count of the resty client
RequestsIssuedRetriesOnce(r) == IF r.failed \/ IsError(r.status) THEN 2 ELSE 1
RequestsIssued(r) == IF r.failed THEN 1 + RetryCount ELSE 1

\* the body GET, POST, PUT and DELETE share, after the request was executed
RestReturnStatusFirst(r, x) ==
    IF ~IsSuccess(r.status)
    THEN IF x.reqError # <<>>
         THEN APIError(x.reqError[1], r.status)
         ELSE StatusError(r.status)
    ELSE IF x.err # "nil"
    THEN RequestFailed(x.err)
    ELSE NilError
RestReturn(r, x) ==
    IF x.err # "nil"
    THEN RequestFailed(x.err)
    ELSE IF ~IsSuccess(r.status)
    THEN IF x.reqError # <<>>
         THEN APIError(x.reqError[1], r.status)
         ELSE StatusError(r.status)
    ELSE NilError

\* no REST call made yet
NoCall ==
    [method |-> "none", auth |-> Absent, key |-> "", requests |-> 0,
     resp |-> TransportFailure, ret |-> NilError, result |-> ZeroResult]

\* GET, POST, PUT or DELETE: the request goes out with the headers of the
\* resty client, and the response decides the return value
RestCall ==
    \E method \in Methods, r \in Responses, strict \in BOOLEAN :
        LET x == Execute(r, strict) IN
        /\ call' = [method |-> method,
                    auth |-> restAuth,
                    key |-> apiKey,
                    requests |-> RequestsIssued(r),
                    resp |-> r,
                    ret |-> RestReturn(r, x),
                    result |-> x.result]
        /\ UNCHANGED <<baseURL, apiKey, restAuth, nSetKey, dialVars,
                       streamVars, sideVars>>

\* the state NewAPIClient returns, for a configured base URL: no credential,
\* no stream
NewAPIClient(configured) ==
    /\ baseURL = NewAPIClientBaseURL(configured)
    /\ apiKey = ""
    /\ restAuth = NewAPIClientAuth
    /\ nSetKey = 0
    /\ call = NoCall
    /\ dial = NoDial
    /\ nDials = 0
    /\ nLoops = 0
    /\ pc = "none"
    /\ msg = ZeroMsg
    /\ err = NoErr
    /\ msgChan = <<>>
    /\ msgClosed = FALSE
    /\ errChan = <<>>
    /\ errClosed = FALSE
    /\ ctxDone = FALSE
    /\ connClosed = FALSE
    /\ closePc = "idle"
    /\ closeRets = <<>>
    /\ nRead = 0
    /\ received = <<>>
    /\ errsReceived = <<>>

\* no command function is consuming the stream
NoConsumer ==
    /\ consumer = "none"
    /\ cpc = "none"
    /\ cret = "none"
    /\ sigDone = FALSE

\* a second StreamReader that has not been created
NoStream ==
    [conn |-> "none", ctxDone |-> FALSE, msgChan |-> <<>>,
     msgClosed |-> FALSE, errChan |-> <<>>, errClosed |-> FALSE,
     pc |-> "none"]

\* no command that calls the REST methods is running
NoLogin ==
    [pc |-> "none", key |-> "", before |-> "", paths |-> <<>>,
     errs |-> <<>>, stores |-> 0, ret |-> "none"]
NoDelete ==
    [pc |-> "none", force |-> FALSE, keepLocal |-> FALSE, response |-> "",
     cancelled |-> FALSE, before |-> "absent", removes |-> 0,
     ret |-> "none"]
NoCommand ==
    /\ stored = ""
    /\ login = NoLogin
    /\ del = NoDelete
    /\ localFiles = "absent"

\* a client built from the default configuration
Init ==
    /\ NewAPIClient(<<>>)
    /\ NoConsumer
    /\ other = NoStream
    /\ NoCommand

\* a client built from any configuration
ClientInit ==
    /\ \E configured \in ConfiguredBaseURLs : NewAPIClient(configured)
    /\ NoConsumer
    /\ other = NoStream
    /\ NoCommand

\* SetAPIKey(k)
SetAPIKey ==
    \E k \in Keys :
        /\ ~Panicked
        /\ nSetKey < MaxSetKey
        /\ nSetKey' = nSetKey + 1
        /\ apiKey' = k
        /\ restAuth' = SetAPIKeyHeader(k)
        /\ UNCHANGED <<baseURL, call, dialVars, streamVars, sideVars>>

\* the stream is open: NewStreamReader returned a reader
Opened == nDials > 0 /\ dial.ret = NoDialErr

\* the server answered the upgrade with an HTTP response and the dial failed
Rejected == nDials > 0 /\ dial.resp.answered /\ dial.ret.cause # "nil"

\* readLoop has returned and its deferred closes have run
Terminated == msgClosed \/ pc = "done"

\* NewStreamReader(path): ConnectWebSocket, then on success the reader with
\* its context and two empty channels, and go reader.readLoop().  When
\* WebSocketURL panics no dial is made and nothing runs afterwards.  The
\* model follows the first stream a client opens.
NewStreamReader ==
    \E path \in Paths, o \in DialOutcomes :
        LET wsURL == WebSocketURL(baseURL, path)
            ret == IF wsURL = Panic
                   THEN PanicErr
                   ELSE ConnectWebSocketError(o.resp, o.err)
        IN
        /\ nDials = 0
        /\ ~Panicked
        /\ nDials' = IF wsURL = Panic THEN nDials ELSE nDials + 1
        /\ dial' = IF wsURL = Panic
                   THEN [NoDial EXCEPT !.path = path, !.url = wsURL,
                                       !.ret = ret]
                   ELSE [path |-> path,
                         url |-> wsURL,
                         auth |-> WSAuthHeader(apiKey),
                         resp |-> o.resp,
                         ret |-> ret]
        /\ nLoops' = nLoops + LoopsStarted(ret)
        /\ pc' = IF LoopsStarted(ret) > 0 THEN "select" ELSE pc
        /\ UNCHANGED <<clientVars, sideVars, msg, err, chanVars, closeVars,
                       nRead, consumerVars>>

\* ---- readLoop -----------------------------------------------------------
\* select { case <-sr.ctx.Done(): return; default: ... ReadJSON }
LoopSelect ==
    /\ pc = "select"
    /\ pc' = IF ctxDone THEN "deferErr" ELSE "read"
    /\ msg' = ZeroMsg
    /\ UNCHANGED <<clientVars, dialVars, sideVars, err, chanVars, closeVars,
                   nRead, consumerVars>>

\* what readLoop does with a non-nil err of ReadJSON
AfterReadErrorReadsAgain(e) == "read"
AfterReadErrorSkipsBadFrame(e) ==
    IF IsExpectedClose(e)
    THEN "deferErr"
    ELSE IF e.kind = "json" THEN "select" ELSE "sendErr"
AfterReadError(e) == IF IsExpectedClose(e) THEN "deferErr" ELSE "sendErr"

\* ReadJSON returns the next frame of the server, decoded
ReadFrame ==
    /\ pc = "read"
    /\ ~connClosed
    /\ nRead < MaxFrames
    /\ nRead' = nRead + 1
    /\ msg' = StreamMessage(Frame(nRead + 1))
    /\ err' = NoErr
    /\ pc' = "send"
    /\ UNCHANGED <<clientVars, dialVars, sideVars, chanVars, closeVars,
                   consumerVars>>

\* ReadJSON fails: the peer closed with a close code, the network failed,
\* or the frame is not a JSON encoding of a StreamMessage
ReadFails(e) ==
    /\ pc = "read"
    /\ ~connClosed
    /\ err' = e
    /\ pc' = AfterReadError(e)
    /\ UNCHANGED <<clientVars, dialVars, sideVars, msg, chanVars, closeVars,
                   nRead, consumerVars>>

ReadRemoteClose ==
    \E c \in {CloseNormalClosure, CloseGoingAway} \cup OtherCloseCodes :
        ReadFails(CloseError(c))

ReadIOError == ReadFails(IOErr)

ReadBadFrame == ReadFails(JSONErr)

\* ReadJSON fails because Close() closed the connection under it
ReadClosedConn ==
    /\ pc = "read"
    /\ connClosed
    /\ err' = NetClosedErr
    /\ pc' = AfterReadError(NetClosedErr)
    /\ UNCHANGED <<clientVars, dialVars, sideVars, msg, chanVars, closeVars,
                   nRead, consumerVars>>

\* sr.errChan <- err ; return
SendErrContinues ==
    /\ pc = "sendErr"
    /\ Len(errChan) < ErrChanCap
    /\ errChan' = Append(errChan, err)
    /\ pc' = "select"
    /\ UNCHANGED <<clientVars, dialVars, sideVars, msg, err, msgChan,
                   msgClosed, errClosed, closeVars, nRead, consumerVars>>
SendErr ==
    /\ pc = "sendErr"
    /\ Len(errChan) < ErrChanCap
    /\ errChan' = Append(errChan, err)
    /\ pc' = "deferErr"
    /\ UNCHANGED <<clientVars, dialVars, sideVars, msg, err, msgChan,
                   msgClosed, errClosed, closeVars, nRead, consumerVars>>

\* the buffer of msgChan after a send that went through
MsgChanAfterSendInFront(ch, m) == <<m>> \o ch
MsgChanAfterSend(ch, m) == Append(ch, m)

\* a send on msgChan can go through
MsgChanCanSendNeverBlocks(ch) == TRUE
MsgChanCanSend(ch) == Len(ch) < MsgChanCap

\* sr.msgChan <- msg
SendMsg ==
    /\ pc = "send"
    /\ MsgChanCanSend(msgChan)
    /\ msgChan' = MsgChanAfterSend(msgChan, msg)
    /\ pc' = "select"
    /\ UNCHANGED <<clientVars, dialVars, sideVars, msg, err, msgClosed,
                   errChan, errClosed, closeVars, nRead, consumerVars>>

\* defer close(sr.errChan): the deferred call registered last runs first
DeferCloseErrChan ==
    /\ pc = "deferErr"
    /\ errClosed' = TRUE
    /\ pc' = "deferMsg"
    /\ UNCHANGED <<clientVars, dialVars, sideVars, msg, err, msgChan,
                   msgClosed, errChan, closeVars, nRead, consumerVars>>

\* defer close(sr.msgChan)
DeferCloseMsgChanRestartsLoop ==
    /\ pc = "deferMsg"
    /\ msgClosed' = TRUE
    /\ pc' = "select"
    /\ UNCHANGED <<clientVars, dialVars, sideVars, msg, err, msgChan, errChan,
                   errClosed, closeVars, nRead, consumerVars>>
DeferCloseMsgChan ==
    /\ pc = "deferMsg"
    /\ msgClosed' = TRUE
    /\ pc' = "done"
    /\ UNCHANGED <<clientVars, dialVars, sideVars, msg, err, msgChan, errChan,
                   errClosed, closeVars, nRead, consumerVars>>

\* ---- Close() ------------------------------------------------------------
\* sr.cancel()
CloseCancelSharedContext ==
    /\ Opened
    /\ closePc = "idle"
    /\ Len(closeRets) < MaxCloseCalls
    /\ ctxDone' = TRUE
    /\ closePc' = "cancelled"
    /\ other' = [other EXCEPT !.ctxDone = TRUE]
    /\ UNCHANGED <<clientVars, dialVars, loopVars, cmdVars, pc, msg, err,
                   chanVars, connClosed, closeRets, nRead, consumerVars>>
CloseCancel ==
    /\ Opened
    /\ closePc = "idle"
    /\ Len(closeRets) < MaxCloseCalls
    /\ ctxDone' = TRUE
    /\ closePc' = "cancelled"
    /\ UNCHANGED <<clientVars, dialVars, sideVars, pc, msg, err, chanVars,
                   connClosed, closeRets, nRead, consumerVars>>

\* conn.Close() of a connection: closing the network connection a second
\* time returns "use of closed network connection"
ConnCloseResult(closed) == IF closed THEN NetClosedErr ELSE NoErr

\* return sr.conn.Close(), for a caller that also waits for the readLoop
CloseConnWaitsForReader ==
    /\ closePc = "cancelled"
    /\ pc = "done"
    /\ closeRets' = Append(closeRets, ConnCloseResult(connClosed))
    /\ connClosed' = TRUE
    /\ closePc' = "idle"
    /\ UNCHANGED <<clientVars, dialVars, sideVars, pc, msg, err, chanVars,
                   ctxDone, nRead, consumerVars>>

\* return sr.conn.Close()
CloseConnClosesChannels ==
    /\ closePc = "cancelled"
    /\ closeRets' = Append(closeRets, ConnCloseResult(connClosed))
    /\ connClosed' = TRUE
    /\ closePc' = "idle"
    /\ msgClosed' = TRUE
    /\ errClosed' = TRUE
    /\ UNCHANGED <<clientVars, dialVars, sideVars, pc, msg, err, msgChan,
                   errChan, ctxDone, nRead, consumerVars>>
CloseConn ==
    /\ closePc = "cancelled"
    /\ closeRets' = Append(closeRets, ConnCloseResult(connClosed))
    /\ connClosed' = TRUE
    /\ closePc' = "idle"
    /\ UNCHANGED <<clientVars, dialVars, sideVars, pc, msg, err, chanVars,
                   ctxDone, nRead, consumerVars>>

\* ---- the consumer of the two channels -----------------------------------
\* msg, ok := <-stream.Messages() with a buffered envelope
RecvMsg ==
    /\ Len(received) < MaxRecv
    /\ msgChan # <<>>
    /\ received' = Append(received, Head(msgChan))
    /\ msgChan' = Tail(msgChan)
    /\ UNCHANGED <<clientVars, dialVars, sideVars, pc, msg, err, msgClosed,
                   errChan, errClosed, closeVars, nRead, errsReceived>>

\* err, ok := <-stream.Errors() with a buffered error
RecvErr ==
    /\ errChan # <<>>
    /\ errsReceived' = Append(errsReceived, Head(errChan))
    /\ errChan' = Tail(errChan)
    /\ UNCHANGED <<clientVars, dialVars, sideVars, pc, msg, err, msgChan,
                   msgClosed, errClosed, closeVars, nRead, received>>

\* ---- the command functions that consume a stream -----------------------
Consumers ==
    {"watchAgent", "getContainerLogs", "watchFiles",
     "executeStreamingCommand", "followJobOutput"}

\* the select of the function's loop has a case <-ctx.Done(), on a context
\* that a goroutine cancels when the process gets an interrupt signal
HasCancelCase(k) == k \in {"watchAgent", "getContainerLogs"}

\* handling the envelope returns from the function
EndsLoop(k, m) ==
    \/ (k = "watchAgent" /\ m.type = "complete")
    \/ (k = "executeStreamingCommand" /\ m.metadata.status = <<"completed">>)

\* a command function is about to call NewStreamReader on a fresh client
ConsumerInit ==
    /\ NewAPIClient(<<>>)
    /\ consumer \in Consumers
    /\ cpc = "open"
    /\ cret = "none"
    /\ sigDone = FALSE
    /\ other = NoStream
    /\ NoCommand

\* stream, err := apiClient.NewStreamReader(path); if err != nil { return };
\* defer stream.Close()
ConsumerAfterOpen ==
    /\ cpc = "open"
    /\ nDials > 0
    /\ cpc' = IF Opened THEN "select" ELSE "returned"
    /\ cret' = IF Opened THEN cret ELSE "failed to connect"
    /\ UNCHANGED <<clientVars, dialVars, streamVars, consumer, sigDone, other,
                   cmdVars>>

\* The process gets SIGINT or SIGTERM while the loop runs.  A function that
\* called signal.Notify has its goroutine cancel the loop's context; in the
\* others the signal ends the process: the function's loop and readLoop stop
\* where they are and no deferred call runs.
Interrupt ==
    /\ cpc = "select"
    /\ ~sigDone
    /\ sigDone' = TRUE
    /\ cpc' = IF HasCancelCase(consumer) THEN cpc ELSE "killed"
    /\ cret' = IF HasCancelCase(consumer) THEN cret ELSE "killed"
    /\ pc' = IF HasCancelCase(consumer) THEN pc ELSE "killed"
    /\ UNCHANGED <<clientVars, dialVars, msg, err, chanVars, closeVars, nRead,
                   consumerVars, consumer, other, cmdVars>>

\* case <-ctx.Done(): return nil
ConsumerCancelled ==
    /\ cpc = "select"
    /\ HasCancelCase(consumer)
    /\ sigDone
    /\ cpc' = "returned"
    /\ cret' = "cancelled"
    /\ UNCHANGED <<clientVars, dialVars, streamVars, consumer, sigDone, other,
                   cmdVars>>

\* case msg, ok := <-stream.Messages() with ok: handle the envelope
ConsumerMsg ==
    /\ cpc = "select"
    /\ msgChan # <<>>
    /\ received' = Append(received, Head(msgChan))
    /\ msgChan' = Tail(msgChan)
    /\ cpc' = IF EndsLoop(consumer, Head(msgChan)) THEN "returned" ELSE cpc
    /\ cret' = IF EndsLoop(consumer, Head(msgChan)) THEN "complete" ELSE cret
    /\ UNCHANGED <<clientVars, dialVars, pc, msg, err, msgClosed, errChan,
                   errClosed, closeVars, nRead, errsReceived, consumer,
                   sigDone, other, cmdVars>>

\* case msg, ok := <-stream.Messages() with !ok: return nil
ConsumerMsgClosed ==
    /\ cpc = "select"
    /\ msgChan = <<>>
    /\ msgClosed
    /\ cpc' = "returned"
    /\ cret' = "ended"
    /\ UNCHANGED <<clientVars, dialVars, streamVars, consumer, sigDone, other,
                   cmdVars>>

\* case err, ok := <-stream.Errors() with ok: return "stream error: ..."
ConsumerErr ==
    /\ cpc = "select"
    /\ errChan # <<>>
    /\ errsReceived' = Append(errsReceived, Head(errChan))
    /\ errChan' = Tail(errChan)
    /\ cpc' = "returned"
    /\ cret' = "stream error"
    /\ UNCHANGED <<clientVars, dialVars, pc, msg, err, msgChan, msgClosed,
                   errClosed, closeVars, nRead, received, consumer, sigDone,
                   other, cmdVars>>

\* case err, ok := <-stream.Errors() with !ok: return nil
ConsumerErrClosed ==
    /\ cpc = "select"
    /\ errChan = <<>>
    /\ errClosed
    /\ cpc' = "returned"
    /\ cret' = "error channel closed"
    /\ UNCHANGED <<clientVars, dialVars, streamVars, consumer, sigDone, other,
                   cmdVars>>

\* one pass of the select: Go takes any one of the cases that are ready
ConsumerSelect ==
    \/ ConsumerCancelled
    \/ ConsumerMsg
    \/ ConsumerMsgClosed
    \/ ConsumerErr
    \/ ConsumerErrClosed

\* stream.Close() called at the normal end of the loop only, not deferred
DeferredCloseAtEndOnly ==
    /\ cpc = "returned"
    /\ cret = "ended"
    /\ closeRets = <<>>
    /\ CloseCancel

\* the deferred stream.Close() of a function that has returned
DeferredClose ==
    /\ cpc = "returned"
    /\ closeRets = <<>>
    /\ CloseCancel

\* ReadJSON returns the next frame, for a server that sends MaxLoopFrames
ReadLoopFrame ==
    /\ nRead < MaxLoopFrames
    /\ ReadFrame

\* ---- a second StreamReader of the same client --------------------------
\* NewStreamReader returns a second reader: its own connection, context and
\* channels, and its own readLoop
OtherOpen ==
    /\ other.pc = "none"
    /\ other' = [other EXCEPT !.conn = "open", !.pc = "running"]
    /\ UNCHANGED <<clientVars, dialVars, streamVars, loopVars, cmdVars>>

\* its readLoop reads a frame and puts the envelope on its msgChan
OtherReadFrame ==
    /\ other.pc = "running"
    /\ other.conn = "open"
    /\ ~other.ctxDone
    /\ Len(other.msgChan) < MaxLoopFrames
    /\ other' = [other EXCEPT
                   !.msgChan = Append(@, StreamMessage(Frame(Len(@) + 1)))]
    /\ UNCHANGED <<clientVars, dialVars, streamVars, loopVars, cmdVars>>

\* its ReadJSON fails: readLoop sends the error and returns, closing both
\* of its channels
OtherReadFails ==
    /\ other.pc = "running"
    /\ other' = [other EXCEPT
                   !.errChan = <<IF other.conn = "open" THEN IOErr
                                 ELSE NetClosedErr>>,
                   !.errClosed = TRUE, !.msgClosed = TRUE, !.pc = "done"]
    /\ UNCHANGED <<clientVars, dialVars, streamVars, loopVars, cmdVars>>

\* its readLoop sees its context cancelled and returns
OtherLoopCancelled ==
    /\ other.pc = "running"
    /\ other.ctxDone
    /\ other' = [other EXCEPT
                   !.errClosed = TRUE, !.msgClosed = TRUE, !.pc = "done"]
    /\ UNCHANGED <<clientVars, dialVars, streamVars, loopVars, cmdVars>>

\* Close() of the second reader: sr.cancel(), sr.conn.Close()
OtherClose ==
    /\ other.conn = "open"
    /\ other' = [other EXCEPT !.ctxDone = TRUE, !.conn = "closed"]
    /\ UNCHANGED <<clientVars, dialVars, streamVars, loopVars, cmdVars>>

Next ==
    \/ NewStreamReader
    \/ LoopSelect
    \/ ReadFrame
    \/ ReadRemoteClose
    \/ ReadIOError
    \/ ReadBadFrame
    \/ ReadClosedConn
    \/ SendErr
    \/ SendMsg
    \/ DeferCloseErrChan
    \/ DeferCloseMsgChan
    \/ CloseCancel
    \/ CloseConn
    \/ RecvMsg
    \/ RecvErr

Spec == Init /\ [][Next]_vars

\* The Go scheduler runs every goroutine that can take a step, so readLoop
\* and a started Close() go on while they are not blocked, and a read
\* pending on a connection closed locally fails.  Nothing obliges the
\* server to send, the consumer to receive or the owner to call Close().
FairSpec ==
    /\ Spec
    /\ WF_vars(LoopSelect)
    /\ WF_vars(ReadClosedConn)
    /\ WF_vars(SendErr)
    /\ WF_vars(SendMsg)
    /\ WF_vars(DeferCloseErrChan)
    /\ WF_vars(DeferCloseMsgChan)
    /\ WF_vars(CloseConn)

\* The client before and at the dial: any configuration, SetAPIKey, and the
\* opening of a stream.
ClientNext ==
    \/ SetAPIKey
    \/ NewStreamReader

ClientSpec == ClientInit /\ [][ClientNext]_vars

\* The client used for REST, built from the default configuration:
\* SetAPIKey and the four request methods.
RestNext ==
    \/ SetAPIKey
    \/ RestCall

RestSpec == Init /\ [][RestNext]_vars

\* A command function on a fresh client: it opens the stream and runs its
\* loop while readLoop runs, the server sends, closes or fails, and the user
\* may interrupt; its deferred Close() runs when it returns.
ConsumerNext ==
    \/ NewStreamReader
    \/ ConsumerAfterOpen
    \/ LoopSelect
    \/ ReadLoopFrame
    \/ ReadRemoteClose
    \/ ReadIOError
    \/ ReadBadFrame
    \/ ReadClosedConn
    \/ SendErr
    \/ SendMsg
    \/ DeferCloseErrChan
    \/ DeferCloseMsgChan
    \/ Interrupt
    \/ ConsumerCancelled
    \/ ConsumerMsg
    \/ ConsumerMsgClosed
    \/ ConsumerErr
    \/ ConsumerErrClosed
    \/ DeferredClose
    \/ CloseConn

ConsumerSpec == ConsumerInit /\ [][ConsumerNext]_vars

\* One client with two streams: the first with its readLoop, Close() and a
\* receiving consumer, on a server that sends MaxLoopFrames, next to the
\* second.
TwoStreamNext ==
    \/ NewStreamReader
    \/ LoopSelect
    \/ ReadLoopFrame
    \/ ReadRemoteClose
    \/ ReadIOError
    \/ ReadBadFrame
    \/ ReadClosedConn
    \/ SendErr
    \/ SendMsg
    \/ DeferCloseErrChan
    \/ DeferCloseMsgChan
    \/ CloseCancel
    \/ CloseConn
    \/ RecvMsg
    \/ RecvErr
    \/ OtherOpen
    \/ OtherReadFrame
    \/ OtherReadFails
    \/ OtherLoopCancelled
    \/ OtherClose

TwoStreamSpec == Init /\ [][TwoStreamNext]_vars

\* The goroutines of the process keep running: readLoop, the
\* function's loop whenever one of its cases is ready (and its cancellation
\* case once the context is cancelled), and the deferred Close().  Nothing
\* obliges the server to send or the user to interrupt.
FairConsumerSpec ==
    /\ ConsumerSpec
    /\ WF_vars(NewStreamReader)
    /\ WF_vars(ConsumerAfterOpen)
    /\ WF_vars(LoopSelect)
    /\ WF_vars(ReadClosedConn)
    /\ WF_vars(SendErr)
    /\ WF_vars(SendMsg)
    /\ WF_vars(DeferCloseErrChan)
    /\ WF_vars(DeferCloseMsgChan)
    /\ WF_vars(ConsumerSelect)
    /\ WF_vars(ConsumerCancelled)
    /\ WF_vars(DeferredClose)
    /\ WF_vars(CloseConn)

\* ---- loginUser ----------------------------------------------------------
\* API keys the configuration may hold before the command runs
StoredKeys == {"", "fleeks_k1"}

\* values of the flag --api-key ("" is the flag not given) and texts typed
\* at the prompt
LoginFlagKeys == {"", "sk_k2", "bogus"}
PromptInputs == {"", "fleeks_k1", "sk_k2", "bogus"}

\* the Validate function of the prompt: not blank, and with the prefix
\* "fleeks_" or "sk_"
HasKeyPrefix(k) == k \in {"fleeks_k1", "sk_k2"}
ValidateKey(k) == k # "" /\ HasKeyPrefix(k)

\* prompt.Run(): an input that Validate accepts, or an error (<<>>) when the
\* user cancels
PromptOutcomes == {<<k>> : k \in {i \in PromptInputs : ValidateKey(i)}}
                      \cup {<<>>}

\* cfg.SetAPIKey(apiKey): the key the configuration holds afterwards
ConfigSetAPIKey(cur, k, ok) == IF ok THEN k ELSE cur

\* the request a REST method sends with the client as it is, and what the
\* method returns for the response
Request(method, r, x) ==
    [method |-> method,
     auth |-> restAuth,
     key |-> apiKey,
     requests |-> RequestsIssued(r),
     resp |-> r,
     ret |-> RestReturn(r, x),
     result |-> x.result]

\* a command with the configuration's key in front of it
LoginInit ==
    /\ NewAPIClient(<<>>)
    /\ NoConsumer
    /\ other = NoStream
    /\ stored \in StoredKeys
    /\ login = [NoLogin EXCEPT !.pc = "start", !.before = stored]
    /\ del = NoDelete
    /\ localFiles = "absent"

\* config.Load(), the key from the flag or the prompt, NewAPIClient and
\* SetAPIKey(apiKey)
LoginBegin ==
    \E loaded \in BOOLEAN, flag \in LoginFlagKeys, typed \in PromptOutcomes :
        LET key == IF flag # "" THEN <<flag>> ELSE typed IN
        /\ login.pc = "start"
        /\ IF ~loaded
           THEN /\ login' = [login EXCEPT !.pc = "returned",
                                          !.ret = "failed to load config"]
                /\ UNCHANGED <<apiKey, restAuth, nSetKey>>
           ELSE IF key = <<>>
           THEN /\ login' = [login EXCEPT !.pc = "returned",
                                          !.ret = "API key input cancelled"]
                /\ UNCHANGED <<apiKey, restAuth, nSetKey>>
           ELSE /\ login' = [login EXCEPT !.pc = "health", !.key = key[1]]
                /\ apiKey' = key[1]
                /\ restAuth' = SetAPIKeyHeader(key[1])
                /\ nSetKey' = nSetKey + 1
        /\ UNCHANGED <<baseURL, call, dialVars, streamVars, loopVars, other,
                       stored, del, localFiles>>

\* apiClient.HealthCheck(), with the key stored as soon as it has succeeded
LoginHealthCheckStoresKey ==
    \E r \in Responses, strict \in BOOLEAN :
        LET c == Request("GET", r, Execute(r, strict)) IN
        /\ login.pc = "health"
        /\ call' = c
        /\ login' = [login EXCEPT
               !.paths = Append(@, "/health"),
               !.errs = Append(@, c.ret.kind),
               !.stores = IF c.ret = NilError THEN @ + 1 ELSE @,
               !.pc = IF c.ret = NilError THEN "userinfo" ELSE "returned",
               !.ret = IF c.ret = NilError
                       THEN @ ELSE "API key validation failed"]
        /\ stored' = IF c.ret = NilError THEN login.key ELSE stored
        /\ UNCHANGED <<baseURL, apiKey, restAuth, nSetKey, dialVars,
                       streamVars, loopVars, other, del, localFiles>>

\* if err := apiClient.HealthCheck(); err != nil { return ... }
LoginHealthCheck ==
    \E r \in Responses, strict \in BOOLEAN :
        LET c == Request("GET", r, Execute(r, strict)) IN
        /\ login.pc = "health"
        /\ call' = c
        /\ login' = [login EXCEPT
               !.paths = Append(@, "/health"),
               !.errs = Append(@, c.ret.kind),
               !.pc = IF c.ret = NilError THEN "userinfo" ELSE "returned",
               !.ret = IF c.ret = NilError
                       THEN @ ELSE "API key validation failed"]
        /\ UNCHANGED <<baseURL, apiKey, restAuth, nSetKey, dialVars,
                       streamVars, loopVars, other, stored, del, localFiles>>

\* if err := apiClient.GET("/api/v1/auth/me", &userInfo); err != nil { ... }
LoginUserInfo ==
    \E r \in Responses, strict \in BOOLEAN :
        LET c == Request("GET", r, Execute(r, strict)) IN
        /\ login.pc = "userinfo"
        /\ call' = c
        /\ login' = [login EXCEPT
               !.paths = Append(@, "/api/v1/auth/me"),
               !.errs = Append(@, c.ret.kind),
               !.pc = IF c.ret = NilError THEN "store" ELSE "returned",
               !.ret = IF c.ret = NilError
                       THEN @ ELSE "failed to get user info"]
        /\ UNCHANGED <<baseURL, apiKey, restAuth, nSetKey, dialVars,
                       streamVars, loopVars, other, stored, del, localFiles>>

\* if err := cfg.SetAPIKey(apiKey); err != nil { return ... }; return nil
LoginStore ==
    \E ok \in BOOLEAN :
        /\ login.pc = "store"
        /\ stored' = ConfigSetAPIKey(stored, login.key, ok)
        /\ login' = [login EXCEPT
               !.stores = @ + 1,
               !.pc = "returned",
               !.ret = IF ok THEN "nil" ELSE "failed to store API key"]
        /\ UNCHANGED <<clientVars, dialVars, streamVars, loopVars, other, del,
                       localFiles>>

LoginNext ==
    \/ LoginBegin
    \/ LoginHealthCheck
    \/ LoginUserInfo
    \/ LoginStore

LoginSpec == LoginInit /\ [][LoginNext]_vars

\* ---- deleteWorkspace ----------------------------------------------------
\* lines typed at the question "Are you sure ...? [y/N]", as their words
AnswerLines ==
    {<<>>, <<"y">>, <<"Y">>, <<"n">>, <<"yes">>, <<"y", "es">>}

\* fmt.Scanln(&response): the first word of the line; response keeps its
\* zero value on an empty line
Scanln(line) == IF line = <<>> THEN "" ELSE line[1]

\* response != "y" && response != "Y" is false
Confirmed(response) == response = "y" \/ response = "Y"

\* the local directory of the workspace before the command runs
LocalStates == {"present", "absent"}

\* what os.RemoveAll leaves of a directory: nothing, or with an error part
\* of it or all of it
RemoveAllOutcomes == {"removed", "partial", "present"}

\* c.client.R().SetResult(nil).SetError(&ErrorResponse{}).Delete(endpoint):
\* with no result to fill, the body of a successful response is not decoded
ExecuteNoResult(r, strict) ==
    LET x == Execute(r, strict) IN
    IF ~r.failed /\ IsSuccess(r.status)
    THEN [x EXCEPT !.err = "nil", !.result = ZeroResult]
    ELSE x

DeleteInit ==
    /\ NewAPIClient(<<>>)
    /\ NoConsumer
    /\ other = NoStream
    /\ stored \in StoredKeys
    /\ login = NoLogin
    /\ localFiles \in LocalStates
    /\ del = [NoDelete EXCEPT !.pc = "start", !.before = localFiles]

\* the flags, and without --force the question and the answer
DeleteConfirm ==
    \E force \in BOOLEAN, keepLocal \in BOOLEAN, line \in AnswerLines :
        LET response == IF force THEN "" ELSE Scanln(line)
            goesOn == force \/ Confirmed(response)
        IN
        /\ del.pc = "start"
        /\ del' = [del EXCEPT
               !.force = force,
               !.keepLocal = keepLocal,
               !.response = response,
               !.cancelled = ~goesOn,
               !.pc = IF goesOn THEN "config" ELSE "returned",
               !.ret = IF goesOn THEN @ ELSE "nil"]
        /\ UNCHANGED <<clientVars, dialVars, streamVars, loopVars, other,
                       stored, login, localFiles>>

\* config.Load(), the check of cfg.GetAPIKey(), NewAPIClient and
\* SetAPIKey(cfg.GetAPIKey())
DeleteLoadConfig ==
    \E loaded \in BOOLEAN :
        /\ del.pc = "config"
        /\ IF ~loaded
           THEN /\ del' = [del EXCEPT !.pc = "returned",
                                      !.ret = "failed to load config"]
                /\ UNCHANGED <<apiKey, restAuth, nSetKey>>
           ELSE IF stored = ""
           THEN /\ del' = [del EXCEPT !.pc = "returned",
                                      !.ret = "API key not configured"]
                /\ UNCHANGED <<apiKey, restAuth, nSetKey>>
           ELSE /\ del' = [del EXCEPT !.pc = "delete"]
                /\ apiKey' = stored
                /\ restAuth' = SetAPIKeyHeader(stored)
                /\ nSetKey' = nSetKey + 1
        /\ UNCHANGED <<baseURL, call, dialVars, streamVars, loopVars, other,
                       stored, login, localFiles>>

\* apiClient.DELETE(endpoint, nil), with its error ignored
DeleteRequestGoesOn ==
    \E r \in Responses, strict \in BOOLEAN :
        /\ del.pc = "delete"
        /\ call' = Request("DELETE", r, ExecuteNoResult(r, strict))
        /\ del' = [del EXCEPT !.pc = "local"]
        /\ UNCHANGED <<baseURL, apiKey, restAuth, nSetKey, dialVars,
                       streamVars, loopVars, other, stored, login,
                       localFiles>>

\* if err := apiClient.DELETE(endpoint, nil); err != nil { return ... }
DeleteRequest ==
    \E r \in Responses, strict \in BOOLEAN :
        LET c == Request("DELETE", r, ExecuteNoResult(r, strict)) IN
        /\ del.pc = "delete"
        /\ call' = c
        /\ del' = [del EXCEPT
               !.pc = IF c.ret = NilError THEN "local" ELSE "returned",
               !.ret = IF c.ret = NilError
                       THEN @ ELSE "failed to delete workspace"]
        /\ UNCHANGED <<baseURL, apiKey, restAuth, nSetKey, dialVars,
                       streamVars, loopVars, other, stored, login,
                       localFiles>>

\* if !keepLocal { if os.Stat(localPath) succeeds { os.RemoveAll } };
\* return nil
DeleteLocal ==
    \E left \in RemoveAllOutcomes :
        LET removes == ~del.keepLocal /\ localFiles = "present" IN
        /\ del.pc = "local"
        /\ localFiles' = IF removes THEN left ELSE localFiles
        /\ del' = [del EXCEPT
               !.removes = IF removes THEN @ + 1 ELSE @,
               !.pc = "returned",
               !.ret = "nil"]
        /\ UNCHANGED <<clientVars, dialVars, streamVars, loopVars, other,
                       stored, login>>

DeleteNext ==
    \/ DeleteConfirm
    \/ DeleteLoadConfig
    \/ DeleteRequest
    \/ DeleteLocal

DeleteSpec == DeleteInit /\ [][DeleteNext]_vars

\* ---- properties ---------------------------------------------------------
\* error values that have been sent on errChan so far
ErrorsDelivered == Len(errChan) + Len(errsReceived)

\* the envelope of the i-th frame of the server, in wire order
Envelope(i) == StreamMessage(Frame(i))

\* ReadJSON has reported that the remote side is gone: it closed the
\* connection normally, or the connection failed
RemoteGone == IsExpectedClose(err) \/ err.kind = "io"

\* readLoop has failed with a read error that is not a normal close
ReadFailed ==
    \/ err.kind \in {"io", "json"}
    \/ (err.kind = "close" /\ ~IsExpectedClose(err))

\* what the first StreamReader owns: connection, context, channels, and
\* the position and locals of its readLoop
FirstStream ==
    <<pc, msg, err, msgChan, msgClosed, errChan, errClosed, ctxDone,
      connClosed>>

\* the envelope readLoop holds between ReadJSON and the send on msgChan
InHand == IF pc = "send" THEN <<msg>> ELSE <<>>

\* C1: when readLoop has terminated, exactly one of the two terminal events
\* has happened: msgChan is closed, or errChan got one error; never both,
\* never neither.
C1_ExactlyOneTerminalEvent ==
    pc = "done" => (msgClosed # (ErrorsDelivered = 1))

\* C2: after a ReadJSON error that is not an expected close, readLoop has
\* pushed the error and terminated with msgChan still open.
C2_FailureLeavesDataChannelOpen ==
    (/\ pc = "done"
     /\ \/ err.kind \in {"io", "json", "netclosed"}
        \/ (err.kind = "close" /\ err.code \in OtherCloseCodes))
    => (ErrorsDelivered = 1 /\ ~msgClosed)

\* C3: after the peer closed with CloseNormalClosure or CloseGoingAway,
\* readLoop is on its way out, no error is ever sent on errChan, and once
\* it has terminated msgChan is closed.
C3_NormalCloseClosesDataChannelOnly ==
    (err.kind = "close" /\ err.code \in {CloseNormalClosure, CloseGoingAway})
    => /\ ErrorsDelivered = 0
       /\ pc \in {"deferErr", "deferMsg", "done"}
       /\ (pc = "done" => msgClosed)

C3_Witness ==
    /\ pc = "done"
    /\ err = CloseError(CloseGoingAway)
    /\ msgClosed
    /\ nRead > 0

\* C4: the envelopes the consumer has received, then those buffered in
\* msgChan, then the one readLoop holds, are the envelopes of the frames the
\* server sent, in wire order, each once; so after a normal close and a
\* drained channel the consumer has received exactly the frames sent.
C4_InOrderDelivery ==
    /\ \A i \in DOMAIN received : received[i] = Envelope(i)
    /\ \A j \in DOMAIN msgChan : msgChan[j] = Envelope(Len(received) + j)
    /\ \A k \in DOMAIN InHand : InHand[k] = Envelope(nRead)
    /\ Len(received) + Len(msgChan) + Len(InHand) = nRead
    /\ ((pc = "done" /\ err = CloseError(CloseNormalClosure) /\ msgChan = <<>>)
        => Len(received) = nRead)

C4_Witness ==
    /\ pc = "done"
    /\ err = CloseError(CloseNormalClosure)
    /\ msgChan = <<>>
    /\ Len(received) = MaxRecv
    /\ Len(received) = nRead
    /\ received[1].type # received[MaxRecv].type

\* C5: msgChan never holds more than MsgChanCap envelopes; on a full
\* channel the send of readLoop cannot go through, and no frame ReadJSON
\* returned is missing from the consumer, the channel and readLoop's hand.
C5_BoundedNoDrop ==
    /\ Len(msgChan) <= MsgChanCap
    /\ ((pc = "send" /\ Len(msgChan) = MsgChanCap) => ~ENABLED SendMsg)
    /\ Len(received) + Len(msgChan) + Len(InHand) = nRead

C5_Witness ==
    /\ pc = "send"
    /\ Len(msgChan) = MsgChanCap
    /\ received = <<>>

\* C6: a second call of Close() returns no error.
C6_SecondCloseNoError ==
    Len(closeRets) >= 2 => closeRets[2] = NoErr

\* C7: when Close() is called (its cancel() has run) while readLoop is in
\* ReadJSON, the read is unblocked and readLoop eventually terminates.
C7_CloseInReadTerminates ==
    (closePc = "cancelled" /\ pc = "read") ~> (pc = "done")

\* C8: a call of Close() never waits for readLoop or for the consumer: once
\* cancel() has run, conn.Close() can run and return whatever readLoop is
\* doing, and every call that has returned has cancelled the context and
\* closed the connection.
C8_CloseNeverBlocks ==
    /\ (closePc = "cancelled" => ENABLED CloseConn)
    /\ (closeRets # <<>> => (ctxDone /\ connClosed))

C8_Witness ==
    /\ closeRets # <<>>
    /\ closePc = "idle"
    /\ pc = "send"
    /\ Len(msgChan) = MsgChanCap

\* C9: once Close() has returned, readLoop eventually exits, from every
\* reachable state, also when it is blocked on the send to a full msgChan
\* that the consumer has stopped draining.
C9_TaskExitsAfterClose ==
    (closeRets # <<>>) ~> (pc = "done")

\* C10: the context is never seen cancelled while the socket is still open:
\* Close() closes the socket before it cancels the context.
C10_SocketClosedBeforeCancel ==
    ctxDone => connClosed

\* C11: a stream has at most one readLoop: one is started exactly when
\* NewStreamReader returns a reader, none before and none when the dial
\* fails, and no later step (read, send, deferred close, Close(), consumer
\* receive) starts another.
C11_AtMostOneReceiver ==
    /\ nLoops <= 1
    /\ (nLoops = 1) <=> Opened
    /\ (pc # "none") <=> Opened

C11_Witness ==
    /\ Opened
    /\ nLoops = 1
    /\ pc = "done"
    /\ Len(closeRets) = MaxCloseCalls
    /\ received # <<>>

\* C12: from a state where readLoop has returned, every step leaves it
\* returned, makes no dial, starts no loop, reads no frame and puts nothing
\* on msgChan (the consumer may still take what is buffered).
C12_NeverReopens ==
    [][Terminated =>
          /\ Terminated'
          /\ pc' = pc
          /\ msgClosed' = msgClosed
          /\ nDials' = nDials
          /\ nLoops' = nLoops
          /\ nRead' = nRead
          /\ \/ msgChan' = msgChan
             \/ (msgChan # <<>> /\ msgChan' = Tail(msgChan))]_vars

C12_Witness ==
    /\ Terminated
    /\ ~connClosed
    /\ nRead < MaxFrames
    /\ Len(msgChan) < MsgChanCap
    /\ received # <<>>

\* C13: when the server answers the upgrade with a rejection, NewStreamReader
\* returns the error "websocket dial failed with status <status>" with the
\* status of the response, returns no reader and starts no readLoop.
C13_RejectedDialCarriesStatus ==
    Rejected =>
        /\ dial.ret.kind = "websocket dial failed with status"
        /\ dial.ret.status = dial.resp.status
        /\ ~Opened
        /\ nLoops = 0
        /\ pc = "none"

C13_Witness ==
    /\ Rejected
    /\ dial.resp.status = <<403>>

\* C14: the error of a failed dial carries an HTTP status exactly when the
\* server answered with an HTTP response, the two kinds of error differ, and
\* the error is the return value of NewStreamReader: errChan stays empty and
\* open, and the consumer receives nothing from it.
C14_StatusIffAnswered ==
    (nDials > 0 /\ ~Opened) =>
        /\ (dial.ret.status # <<>>) <=> dial.resp.answered
        /\ dial.resp.answered => dial.ret.status = dial.resp.status
        /\ (dial.ret.kind = "websocket dial failed") <=> ~dial.resp.answered
        /\ dial.ret.cause # "nil"
        /\ errChan = <<>>
        /\ ~errClosed
        /\ errsReceived = <<>>

C14_Witness ==
    /\ nDials > 0
    /\ ~dial.resp.answered
    /\ dial.ret.cause = "i/o timeout"
    /\ dial.ret.kind = "websocket dial failed"

\* C15: for a base URL with scheme http or https, the URL dialled is the
\* base URL with http replaced by ws, or https by wss, followed by the path
\* given to NewStreamReader.
C15_WebSocketURLSwapsScheme ==
    (nDials > 0 /\ baseURL[1] \in {"http", "https"}) =>
        dial.url = <<IF baseURL[1] = "https" THEN "wss" ELSE "ws">>
                       \o Tail(baseURL) \o <<dial.path>>

\* C16: whatever calls of SetAPIKey were made, the Authorization header
\* ConnectWebSocket attaches for the current credential is the one the REST
\* client carries: the same "Bearer <credential>", or none on both.
C16_SameBearerHeader ==
    WSAuthHeader(apiKey) = restAuth

\* C17: a REST request carries "Authorization: Bearer <credential>" exactly
\* when the client holds a credential, and then with that credential;
\* without one the request goes out with no Authorization header.
C17_BearerIffCredential ==
    (call.method # "none") =>
        /\ (call.auth # Absent) <=> (call.key # "")
        /\ (call.auth # Absent) => (call.auth = Bearer(call.key))

C19_APIErrorFromEnvelope ==
    (/\ call.method # "none"
     /\ ~call.resp.failed
     /\ call.resp.status \notin 200..299
     /\ call.resp.body.wellformed
     /\ call.resp.body.obj.error # <<>>) =>
        /\ call.ret.kind = "ErrorResponse"
        /\ call.ret.code = <<call.resp.status>>
        /\ call.ret.message = call.resp.body.obj.error[1]

\* C20: a response with a status outside [200,300) whose body is not a JSON
\* object returns the error "request failed with status <status>", which
\* carries the status and nothing else.
C20_GenericStatusError ==
    (/\ call.method # "none"
     /\ ~call.resp.failed
     /\ call.resp.status \notin 200..299
     /\ ~call.resp.body.wellformed) =>
        call.ret = StatusError(call.resp.status)

\* C21: a REST call that got no HTTP response returns the wrapped error
\* "request failed: ...", never an ErrorResponse, and with no status code.
C21_TransportErrorIsDistinct ==
    (call.method # "none" /\ call.resp.failed) =>
        /\ call.ret = RequestFailed("transport")
        /\ call.ret.kind # "ErrorResponse"
        /\ call.ret.code = <<>>

C21_Witness ==
    /\ call.method = "POST"
    /\ call.resp.failed
    /\ call.ret.kind = "request failed"
    /\ call.key # ""

C27_ErrChanWrittenOnce ==
    /\ Len(errChan) <= ErrChanCap
    /\ ErrorsDelivered <= 1
    /\ (pc = "sendErr") =>
           /\ errChan = <<>>
           /\ errsReceived = <<>>
           /\ ~errClosed
           /\ ENABLED SendErr

C27_Witness ==
    /\ pc = "done"
    /\ errChan = <<IOErr>>
    /\ received = <<>>
    /\ errsReceived = <<>>
    /\ Len(msgChan) = MsgChanCap

\* C29: whatever calls of Close() interleave with readLoop, a channel is
\* closed only by readLoop's deferred close and only while still open, it
\* stays closed, and readLoop is never at a send on a closed channel.
C29_ChannelsClosedOnceByReadLoop ==
    /\ [](/\ (pc = "deferErr") => (~errClosed /\ ~msgClosed)
          /\ (pc = "deferMsg") => (errClosed /\ ~msgClosed)
          /\ (pc = "send") => ~msgClosed
          /\ (pc = "sendErr") => ~errClosed
          /\ (pc = "done") => (errClosed /\ msgClosed))
    /\ [][/\ (errClosed' # errClosed) =>
                (pc = "deferErr" /\ errClosed' /\ closePc' = closePc)
          /\ (msgClosed' # msgClosed) =>
                (pc = "deferMsg" /\ msgClosed' /\ closePc' = closePc)]_vars

C29_Witness ==
    /\ pc = "done"
    /\ errClosed
    /\ msgClosed
    /\ Len(closeRets) = MaxCloseCalls
    /\ err = NetClosedErr

\* C30: when ReadJSON fails on a frame that does not decode, readLoop sends
\* that error on errChan and returns: the frame is not put on msgChan, and
\* from then on no frame is read and nothing is added to msgChan.
C30_BadFrameTerminates ==
    /\ [](err = JSONErr =>
            /\ pc \in {"sendErr", "deferErr", "deferMsg", "done"}
            /\ (pc # "sendErr") => (errChan \o errsReceived = <<JSONErr>>)
            /\ Len(received) + Len(msgChan) = nRead
            /\ \A i \in 1..Len(msgChan) :
                   msgChan[i] = Envelope(Len(received) + i))
    /\ [][err = JSONErr =>
            /\ err' = err
            /\ nRead' = nRead
            /\ \/ msgChan' = msgChan
               \/ (msgChan # <<>> /\ msgChan' = Tail(msgChan))]_vars

C30_Witness ==
    /\ err = JSONErr
    /\ pc = "done"
    /\ nRead > 0
    /\ msgChan # <<>>
    /\ errsReceived = <<JSONErr>>

\* C23: the loop of every command function waits on the three events, and
\* an interrupt signal ends the loop only through its cancellation case,
\* after which the function returns and its deferred Close() runs.
C23_ThreeWayWait ==
    /\ (cpc = "select") => HasCancelCase(consumer)
    /\ sigDone => cpc \in {"select", "returned"}

C25_EnvelopesHandledBeforeEnd ==
    (/\ cpc = "returned"
     /\ cret \in {"ended", "error channel closed", "stream error"}
     /\ IsExpectedClose(err)) =>
        /\ Len(received) = nRead
        /\ msgChan = <<>>
        /\ errsReceived = <<>>

\* C26: when readLoop has failed with a read error that is not a normal
\* close, the function's loop never ends on the closure of a channel, as it
\* does when the stream finished normally: it ends reporting the error.
C26_FailureEndsWithStreamError ==
    (cpc = "returned" /\ ReadFailed) =>
        cret \notin {"ended", "error channel closed"}

C33_KeyStoredAfterBothChecks ==
    LET both == <<"/health", "/api/v1/auth/me">> IN
    /\ login.paths = SubSeq(both, 1, Len(login.paths))
    /\ (login.stores > 0) =>
          /\ login.paths = both
          /\ login.errs = <<"nil", "nil">>
          /\ login.stores = 1
    /\ (stored # login.before) => (login.stores = 1 /\ stored = login.key)
    /\ (\E i \in 1..Len(login.errs) : login.errs[i] # "nil") =>
          /\ login.pc = "returned"
          /\ login.ret \in {"API key validation failed",
                            "failed to get user info"}
          /\ login.stores = 0
          /\ stored = login.before
    /\ (login.pc = "returned" /\ login.ret = "nil") => stored = login.key

C33_Witness ==
    /\ login.pc = "returned"
    /\ login.ret = "nil"
    /\ login.before = "fleeks_k1"
    /\ stored = "sk_k2"
    /\ login.paths = <<"/health", "/api/v1/auth/me">>

\* C34: without --force, when the answer is neither y nor Y, deleteWorkspace
\* has sent no DELETE request, has returned and has left the local files
\* as they were; os.RemoveAll has run, or the local files differ from what
\* they were, only when the DELETE request returned no error and
\* --keep-local is not set; and when the DELETE request returned an error
\* the command has returned that error and the local files are as they
\* were.
C34_DeleteConfirmedThenLocal ==
    /\ (del.pc \notin {"none", "start"} /\ ~del.force
            /\ ~Confirmed(del.response)) =>
          /\ call.method = "none"
          /\ call.requests = 0
          /\ del.pc = "returned"
          /\ del.removes = 0
          /\ localFiles = del.before
    /\ (del.removes > 0 \/ localFiles # del.before) =>
          /\ call.method = "DELETE"
          /\ call.ret = NilError
          /\ ~del.keepLocal
          /\ del.removes = 1
    /\ (call.method = "DELETE" /\ call.ret # NilError) =>
          /\ del.pc = "returned"
          /\ del.ret = "failed to delete workspace"
          /\ del.removes = 0
          /\ localFiles = del.before

C34_Witness ==
    /\ del.pc = "returned"
    /\ ~del.force
    /\ del.response = "Y"
    /\ ~del.keepLocal
    /\ call.method = "DELETE"
    /\ call.ret = NilError
    /\ del.before = "present"
    /\ localFiles = "removed"

====
